---- MODULE Spec2Model ----
(***************************************************************************)
(* State-machine model of the laundry-timer clients and their shared       *)
(* Firebase store: FirebaseService (claim / pause / resume / stop, the     *)
(* change-feed listener, the expiry sweeper), TimerManager / SimpleTimer   *)
(* (the client-local countdown handles) and LaundryApp (the UI handlers).  *)
(*                                                                         *)
(* Time is Date.now() in milliseconds.  The store is one record per        *)
(* machine id; runTransaction is an atomic read-modify-write on one key,   *)
(* get / set / remove are single reads and writes.                         *)
(***************************************************************************)
EXTENDS Integers, FiniteSets, Sequences, TLC

\* ------------------------------------------------------------------ bounds

\* Number of clock steps the model explores.
MaxTicks == 4
\* Most user actions (button presses, API calls, page reloads) in one run.
MaxCalls == 3
\* Milliseconds per clock step.
Tick == 30000
\* Number of steps of the fine clock that follows the change feed.
MaxWaits == 8
\* Milliseconds per step of the fine clock.
FeedTick == 500

\* -------------------------------------------------------- program constants

MS_PER_MINUTE == 60000
EXPIRATION_THRESHOLD == 30000
AVAILABLE_BUFFER == 30000
EXPIRE_SAFETY_MS == 30000
SHORT_TIMER_WINDOW == 120000
MIN_PROCESS_INTERVAL == 2000
DEBOUNCE_DELAY == 500
MAX_RETRIES == 2
BATCH_SIZE == 2
CIRCUIT_MAX_RETRIES == 2
MIN_DURATION == 1
MAX_DURATION == 120

\* Date.now() at the start of a run: far above any timer duration.
Epoch == 20 * MS_PER_MINUTE

\* ------------------------------------------------------------- JS helpers

\* Math.ceil(a / b) for b > 0.
CeilDiv(a, b) == -((-a) \div b)

\* Math.max(a, b)
Max(a, b) == IF a >= b THEN a ELSE b

\* { ...base, ...upd }
Merge(base, upd) ==
  [f \in (DOMAIN base) \cup (DOMAIN upd) |->
     IF f \in DOMAIN upd THEN upd[f] ELSE base[f]]

\* delete rec.f for every f in fields
Drop(rec, fields) == [f \in (DOMAIN rec) \ fields |-> rec[f]]

\* A JS value passed as `minutes`: a number, kept in half minutes so that
\* fractional inputs exist, or NaN / a non-numeric value.
Num(n) == [nan |-> FALSE, half |-> 2 * n]
HalfNum(h) == [nan |-> FALSE, half |-> h]
NaNValue == [nan |-> TRUE, half |-> 0]

\* parseInt(v): the integer part (truncation toward zero), NaN for non-numeric.
ParseIntLoose(v) == v
ParseInt(v) ==
  IF v.nan THEN NaNValue
  ELSE IF v.half >= 0 THEN Num(v.half \div 2)
  ELSE Num(-((-v.half) \div 2))

\* The integer a parsed value stands for.
IntOf(v) == v.half \div 2

\* validateDuration(minutes), the same code in TimerManager and FirebaseService.
validateDuration(minutes) ==
  LET duration == ParseInt(minutes)
  IN  /\ ~duration.nan
      /\ duration.half >= 2 * MIN_DURATION
      /\ duration.half <= 2 * MAX_DURATION

\* The ids matching /^(washer|dryer)_[1-4]$/.
ValidMachineIds ==
  {"washer_1", "washer_2", "washer_3", "washer_4",
   "dryer_1", "dryer_2", "dryer_3", "dryer_4"}

\* validateMachineId(machineId), the same test in TimerManager and FirebaseService.
validateMachineId(machineId) == machineId \in ValidMachineIds

\* ------------------------------------------------------------------ store

\* No record under machines/<id>.
Absent == [status |-> "absent"]

Exists(rec) == rec.status # "absent"

\* An update function returning undefined: the transaction aborts.
Undefined == [status |-> "undefined"]

\* The value executeSetTimerTransaction's update function returns.
SetTimerUpdate_merge(currentData, machineId, minutes, t) ==
  IF Exists(currentData)
  THEN Merge(currentData,
             [status |-> "active", end_time |-> t + (minutes.half * MS_PER_MINUTE) \div 2])
  ELSE [machine_id |-> machineId, status |-> "active",
        end_time |-> t + (minutes.half * MS_PER_MINUTE) \div 2,
        updated_at |-> t, duration_minutes |-> IntOf(ParseInt(minutes))]
SetTimerUpdate_blocking(currentData, machineId, minutes, t) ==
  IF Exists(currentData) /\ currentData.status = "active" /\ currentData.end_time - t > MS_PER_MINUTE
  THEN Undefined
  ELSE [machine_id |-> machineId, status |-> "active",
        end_time |-> t + (minutes.half * MS_PER_MINUTE) \div 2,
        updated_at |-> t, duration_minutes |-> IntOf(ParseInt(minutes))]
SetTimerUpdate(currentData, machineId, minutes, t) ==
  [machine_id |-> machineId, status |-> "active",
   end_time |-> t + (minutes.half * MS_PER_MINUTE) \div 2,
   updated_at |-> t, duration_minutes |-> IntOf(ParseInt(minutes))]

\* controlTimer 'pause': the record handed to set().
PausedData(machine, t) ==
  Merge(machine,
        [status |-> "paused", paused_at |-> t,
         paused_time_remaining |-> CeilDiv(machine.end_time - t, MS_PER_MINUTE),
         updated_at |-> t])

\* controlTimer 'resume': the record handed to set().
ResumedData_keepend(machine, t) ==
  Drop(Merge(machine, [status |-> "active", resumed_at |-> t, updated_at |-> t]),
       {"paused_at", "paused_time_remaining"})
ResumedData_seconds(machine, t) ==
  Drop(Merge(machine,
             [status |-> "active",
              end_time |-> t + machine.paused_time_remaining * 1000,
              resumed_at |-> t, updated_at |-> t]),
       {"paused_at", "paused_time_remaining"})
ResumedData(machine, t) ==
  Drop(Merge(machine,
             [status |-> "active",
              end_time |-> t + machine.paused_time_remaining * MS_PER_MINUTE,
              resumed_at |-> t, updated_at |-> t]),
       {"paused_at", "paused_time_remaining"})

\* identifyExpiredTimers(data, currentTime): the candidates as (machineId, endTime).
identifyExpiredTimers(data, currentTime) ==
  {[machineId |-> m, endTime |-> data[m].end_time] :
     m \in {x \in DOMAIN data :
              /\ data[x].status = "active"
              /\ data[x].end_time - currentTime <= EXPIRATION_THRESHOLD}}

\* hasShortTimers of processUpdate.
hasShortTimers_narrow(data, currentTime) ==
  \E m \in DOMAIN data :
     /\ data[m].status = "active"
     /\ data[m].end_time - currentTime <= MS_PER_MINUTE
     /\ data[m].end_time - currentTime > 0
hasShortTimers(data, currentTime) ==
  \E m \in DOMAIN data :
     /\ data[m].status = "active"
     /\ data[m].end_time - currentTime <= SHORT_TIMER_WINDOW
     /\ data[m].end_time - currentTime > 0

\* The update function of atomicExpireTimer's transaction: TRUE when it
\* returns null (delete), FALSE when it returns undefined (abort).
ExpireDecision_unguarded(currentData, expectedEndTime, t) ==
  Exists(currentData)
ExpireDecision_nocompare(currentData, expectedEndTime, t) ==
  /\ Exists(currentData)
  /\ ~(currentData.end_time - t > EXPIRE_SAFETY_MS)
ExpireDecision(currentData, expectedEndTime, t) ==
  /\ Exists(currentData)
  /\ ~(expectedEndTime # 0 /\ currentData.end_time # expectedEndTime)
  /\ ~(currentData.end_time - t > EXPIRE_SAFETY_MS)

\* processMachineData(data, currentTime), for one machine id.
ProcessMachine_floor(machineId, machine, currentTime) ==
  IF ~Exists(machine)
  THEN [machine_id |-> machineId, status |-> "available", time_remaining_minutes |-> 0]
  ELSE IF machine.status = "paused"
  THEN [machine_id |-> machineId, status |-> "paused",
        time_remaining_minutes |-> machine.paused_time_remaining,
        paused_at |-> machine.paused_at]
  ELSE LET timeRemainingMs == machine.end_time - currentTime
           shouldBeAvailable == timeRemainingMs < AVAILABLE_BUFFER
       IN  [machine_id |-> machineId,
            status |-> IF shouldBeAvailable THEN "available" ELSE "active",
            time_remaining_minutes |->
              IF shouldBeAvailable THEN 0 ELSE Max(0, timeRemainingMs \div MS_PER_MINUTE),
            server_end_time |-> machine.end_time]
ProcessMachine(machineId, machine, currentTime) ==
  IF ~Exists(machine)
  THEN [machine_id |-> machineId, status |-> "available", time_remaining_minutes |-> 0]
  ELSE IF machine.status = "paused"
  THEN [machine_id |-> machineId, status |-> "paused",
        time_remaining_minutes |-> machine.paused_time_remaining,
        paused_at |-> machine.paused_at]
  ELSE LET timeRemainingMs == machine.end_time - currentTime
           timeRemainingMinutes == Max(0, CeilDiv(timeRemainingMs, MS_PER_MINUTE))
           shouldBeAvailable == timeRemainingMs <= AVAILABLE_BUFFER
       IN  [machine_id |-> machineId,
            status |-> IF shouldBeAvailable THEN "available" ELSE "active",
            time_remaining_minutes |-> IF shouldBeAvailable THEN 0 ELSE timeRemainingMinutes,
            server_end_time |-> machine.end_time]

processMachineData(data, currentTime) ==
  [m \in DOMAIN data |-> ProcessMachine(m, data[m], currentTime)]

\* ------------------------------------------------- TimerManager / SimpleTimer

\* No entry in TimerManager.timers for a machine id.
NoTimer == [exists |-> FALSE]

\* What a machine card shows: its state class and the minutes in its label.
Disp(status, minutes) == [status |-> status, minutes |-> minutes]

Cell(timer, disp) == [timer |-> timer, disp |-> disp]

\* SimpleTimer.tick() of the handle registered for the machine (expire() included).
TickCell_counting(cell, t) ==
  IF cell.timer.isPaused THEN cell
  ELSE IF cell.disp.minutes - 1 <= 0
  THEN Cell(NoTimer, Disp("available", 0))
  ELSE Cell(cell.timer, Disp("active", cell.disp.minutes - 1))
TickCell(cell, t) ==
  IF cell.timer.isPaused THEN cell
  ELSE LET timeRemainingMs == cell.timer.endTime - t
       IN  IF timeRemainingMs <= 0
           THEN Cell(NoTimer, Disp("available", 0))
           ELSE Cell(cell.timer,
                     Disp("active", Max(0, CeilDiv(timeRemainingMs, MS_PER_MINUTE))))

\* TimerManager.stopTimer(machineId)
StopCell(cell) == Cell(NoTimer, Disp("available", 0))

\* The handles of one machine whose setInterval is running: the registered
\* one, and those that were registered before it and were not stopped.
LiveIntervals(timer) ==
  IF ~timer.exists THEN {}
  ELSE (IF timer.interval THEN {[timer EXCEPT !.earlier = {}]} ELSE {}) \cup timer.earlier

\* new SimpleTimer(machineId, endTime) with its initial tick, then
\* timers.set(machineId, timer) over whatever the registry holds.  A
\* constructor tick that expires clears the interval before the handle is
\* registered.
NewSimpleTimer(cell, endTime, t) ==
  LET fresh == [exists |-> TRUE, endTime |-> endTime, isPaused |-> FALSE,
                pausedTimeRemainingMs |-> 0, interval |-> TRUE,
                earlier |-> LiveIntervals(cell.timer)]
  IN  IF endTime - t <= 0
      THEN Cell([fresh EXCEPT !.interval = FALSE], Disp("available", 0))
      ELSE Cell(fresh, Disp("active", Max(0, CeilDiv(endTime - t, MS_PER_MINUTE))))

StartCell_nostop(cell, endTime, t) ==
  NewSimpleTimer(cell, endTime, t)

\* TimerManager.startTimer(machineId, endTime): stopTimer, then the new
\* SimpleTimer, then timers.set.
StartCell(cell, endTime, t) ==
  NewSimpleTimer(StopCell(cell), endTime, t)

\* TimerManager.pauseTimer(machineId) -> SimpleTimer.pause()
PauseCell(cell, t) ==
  IF ~cell.timer.exists \/ cell.timer.isPaused THEN cell
  ELSE Cell([cell.timer EXCEPT !.isPaused = TRUE,
                               !.pausedTimeRemainingMs = cell.timer.endTime - t],
            Disp("paused", CeilDiv(cell.timer.endTime - t, MS_PER_MINUTE)))

ResumeCell_keepend(cell, t) ==
  IF ~cell.timer.exists \/ ~cell.timer.isPaused THEN cell
  ELSE TickCell(Cell([cell.timer EXCEPT !.isPaused = FALSE], cell.disp), t)

\* TimerManager.resumeTimer(machineId) -> SimpleTimer.resume(), with its tick.
ResumeCell(cell, t) ==
  IF ~cell.timer.exists \/ ~cell.timer.isPaused THEN cell
  ELSE TickCell(Cell([cell.timer EXCEPT !.isPaused = FALSE,
                                        !.endTime = t + cell.timer.pausedTimeRemainingMs],
                     cell.disp), t)

\* The body of updateAllMachines' forEach, for one entry of the machines list.
UpdateOneCell_resync(cell, machine, t) ==
  IF machine.status = "active" /\ machine.server_end_time # 0
  THEN IF ~cell.timer.exists \/ (~cell.timer.isPaused /\ cell.timer.endTime # machine.server_end_time)
       THEN StartCell(cell, machine.server_end_time, t)
       ELSE cell
  ELSE StopCell(cell)
UpdateOneCell(cell, machine, t) ==
  IF machine.status = "active" /\ machine.server_end_time # 0
  THEN IF ~cell.timer.exists
       THEN StartCell(cell, machine.server_end_time, t)
       ELSE cell
  ELSE StopCell(cell)

\* ------------------------------------------------------------------ state

VARIABLES
  now,                 \* Date.now()
  store,               \* machines/<id> in the shared database
  ops,                 \* store operations in flight, of all clients
  timers,              \* per client: TimerManager.timers
  display,             \* per client: the machine cards
  pendingTimerStarts,  \* per client: LaundryApp.pendingTimerStarts
  cooldown,            \* per client: armed 1 s timers that clear pendingTimerStarts
  subscribed,          \* per client: the onValue listener is attached
  firebaseListener,    \* per client: LaundryApp.firebaseListener holds the unsubscribe handle
  feed,                \* per client: a value event on its way to the listener
  debounce,            \* per client: debounceTimeout and the snapshot it holds
  lastProcessTime,     \* per client: lastProcessTime of listenToMachines
  calls,               \* user actions taken so far (bounded by MaxCalls)
  last                 \* the step just taken and what it returned or threw

vars == <<now, store, ops, timers, display, pendingTimerStarts, cooldown,
          subscribed, firebaseListener, feed, debounce, lastProcessTime, calls, last>>

\* The clients whose pages are followed in full.
Clients == DOMAIN timers
\* Other clients: only their store operations are followed.
Remotes == {"r1", "r2"}
Callers == Clients \cup Remotes
Machines == DOMAIN store

NoSnap == [has |-> FALSE]
Snap(data) == [has |-> TRUE, data |-> data]
NoEvent == [kind |-> "none"]

\* The debounce state of one listenToMachines call: the timeout that
\* debounceTimeout refers to, and the timeouts that have been set and have
\* neither fired nor been cleared.  A handle whose timeout fired or was
\* cleared is kept as NoSnap: clearTimeout on it does nothing.
NoDebounce == [timeout |-> NoSnap, pending |-> {}]

\* setTimeout(() => processUpdate(snapshot), 500) called at time t, by the
\* burst-th notification in a row that was put off.
DebounceTimer(data, t, burst) ==
  [has |-> TRUE, data |-> data, set |-> t, due |-> t + DEBOUNCE_DELAY, burst |-> burst]

clearTimeout_forgotten(d) ==
  [timeout |-> NoSnap, pending |-> d.pending]

\* if (debounceTimeout) clearTimeout(debounceTimeout)
clearTimeout(d) ==
  [timeout |-> NoSnap, pending |-> d.pending \ {d.timeout}]

RateLimited_never(t, lastT) ==
  FALSE

RateLimited_always(t, lastT) ==
  TRUE

\* now - lastProcessTime < MIN_PROCESS_INTERVAL in the onValue listener
RateLimited(t, lastT) ==
  t - lastT < MIN_PROCESS_INTERVAL

\* State after every page has loaded, subscribed and handled the first
\* (empty) snapshot.
InitStore(t, cs, data) ==
  LET ms == DOMAIN data
  IN
  /\ now = t
  /\ store = data
  /\ ops = {}
  /\ timers = [c \in cs |-> [m \in ms |-> NoTimer]]
  /\ display = [c \in cs |-> [m \in ms |-> Disp("available", 0)]]
  /\ pendingTimerStarts = [c \in cs |-> {}]
  /\ cooldown = [c \in cs |-> {}]
  /\ subscribed = [c \in cs |-> TRUE]
  /\ firebaseListener = [c \in cs |-> TRUE]
  /\ feed = [c \in cs |-> NoSnap]
  /\ debounce = [c \in cs |-> NoDebounce]
  /\ lastProcessTime = [c \in cs |-> t]
  /\ calls = 0
  /\ last = NoEvent

\* The state after construction over an empty database.
InitAt(t, cs, ms) == InitStore(t, cs, [m \in ms |-> Absent])

\* The same, with the clock at Epoch.
InitFor(cs, ms) == InitAt(Epoch, cs, ms)

\* The database sends a value event to every attached listener when data changed.
Notified(newStore) ==
  [c \in Clients |-> IF subscribed[c] /\ newStore # store THEN Snap(newStore) ELSE feed[c]]

\* One more user action.
UserCall == calls < MaxCalls /\ calls' = calls + 1

\* this.pendingTransactions.get(`setTimer_${machineId}`) of client c: the
\* transaction the map holds under the machine's key, if any.
PendingSetTimer(c, m) ==
  {o \in ops : o.kind = "setTimer" /\ o.c = c /\ o.m = m /\ o.tracked}

\* A caller of FirebaseService.setTimer awaiting the pending transaction.
Waiter(minutes, app) == [minutes |-> minutes, app |-> app]

\* this.pendingTransactions.delete(`setTimer_${machineId}`) of client c.
Untrack(os, c, m) ==
  {IF o.kind = "setTimer" /\ o.c = c /\ o.m = m THEN [o EXCEPT !.tracked = FALSE] ELSE o :
     o \in os}

\* ------------------------------------------------------------- the clock

\* Time passes.  Timers shorter than a clock step (the 500 ms debounce, the
\* 1 s cooldown) have fired before the clock moves on.
Advance ==
  /\ now < Epoch + MaxTicks * Tick
  /\ \A c \in Clients : cooldown[c] = {} /\ debounce[c].pending = {}
  /\ now' = now + Tick
  /\ last' = NoEvent
  /\ UNCHANGED <<calls, store, ops, timers, display, pendingTimerStarts, cooldown,
                 subscribed, firebaseListener, feed, debounce, lastProcessTime>>

\* --------------------------------------------------------- claim (setTimer)

\* A transaction of executeSetTimerTransaction in flight.  `tracked`: it is the
\* promise pendingTransactions holds for the machine; `waiters`: the later
\* callers awaiting it, in the order they called.
SetTimerOp(c, m, minutes, app) ==
  [kind |-> "setTimer", c |-> c, m |-> m, minutes |-> minutes, app |-> app, raced |-> FALSE,
   tracked |-> TRUE, waiters |-> <<>>, attempt |-> 1]

\* FirebaseService.setTimer(machineId, minutes), called directly.  A call that
\* finds a transaction pending for the machine awaits that one; the update
\* function's validation throws before anything is sent.
SvcSetTimer(c, m, v) ==
  /\ IF PendingSetTimer(c, m) # {}
     THEN /\ ops' = {IF o \in PendingSetTimer(c, m)
                     THEN [o EXCEPT !.waiters = Append(@, Waiter(v, FALSE))] ELSE o :
                       o \in ops}
          /\ last' = [kind |-> "setTimer_call", c |-> c, m |-> m, minutes |-> v,
                      app |-> FALSE, outcome |-> "joined", before |-> store,
                      opsBefore |-> ops]
     ELSE IF ~validateMachineId(m)
     THEN /\ ops' = ops
          /\ last' = [kind |-> "setTimer_call", c |-> c, m |-> m, minutes |-> v,
                      app |-> FALSE, outcome |-> "invalid_id", before |-> store,
                      opsBefore |-> ops, timersBefore |-> timers]
     ELSE IF ~validateDuration(v)
     THEN /\ ops' = ops
          /\ last' = [kind |-> "setTimer_call", c |-> c, m |-> m, minutes |-> v,
                      app |-> FALSE, outcome |-> "rejected", before |-> store,
                      opsBefore |-> ops]
     ELSE          /\ ops' = ops \cup {SetTimerOp(c, m, v, FALSE)}
          /\ last' = [kind |-> "setTimer_call", c |-> c, m |-> m, minutes |-> v,
                      app |-> FALSE, outcome |-> "started", before |-> store,
                      opsBefore |-> ops]
  /\ UserCall
  /\ UNCHANGED <<now, store, timers, display, pendingTimerStarts, cooldown,
                 subscribed, firebaseListener, feed, debounce, lastProcessTime>>

\* LaundryApp.setTimer(machineId, minutes): the start buttons and the modal.
AppSetTimer(c, m, v) ==
  /\ IF m \in pendingTimerStarts[c]
     THEN /\ last' = [kind |-> "setTimer_call", c |-> c, m |-> m, minutes |-> v,
                      app |-> TRUE, outcome |-> "ignored", before |-> store,
                      opsBefore |-> ops]
          /\ UNCHANGED <<ops, pendingTimerStarts, cooldown>>
     ELSE IF ~validateMachineId(m)
     THEN /\ last' = [kind |-> "setTimer_call", c |-> c, m |-> m, minutes |-> v,
                      app |-> TRUE, outcome |-> "invalid_id", before |-> store,
                      opsBefore |-> ops, timersBefore |-> timers]
          /\ pendingTimerStarts' = [pendingTimerStarts EXCEPT ![c] = @ \cup {m}]
          /\ cooldown' = [cooldown EXCEPT ![c] = @ \cup {m}]
          /\ UNCHANGED ops
     ELSE IF ~validateDuration(v)
     THEN /\ last' = [kind |-> "setTimer_call", c |-> c, m |-> m, minutes |-> v,
                      app |-> TRUE, outcome |-> "rejected", before |-> store,
                      opsBefore |-> ops]
          /\ pendingTimerStarts' = [pendingTimerStarts EXCEPT ![c] = @ \cup {m}]
          /\ cooldown' = [cooldown EXCEPT ![c] = @ \cup {m}]
          /\ UNCHANGED ops
     ELSE /\ pendingTimerStarts' = [pendingTimerStarts EXCEPT ![c] = @ \cup {m}]
          /\ IF PendingSetTimer(c, m) # {}
             THEN /\ ops' = {IF o \in PendingSetTimer(c, m)
                             THEN [o EXCEPT !.app = TRUE,
                                            !.waiters = Append(@, Waiter(ParseInt(v), TRUE))]
                             ELSE o :
                               o \in ops}
                  /\ last' = [kind |-> "setTimer_call", c |-> c, m |-> m, minutes |-> v,
                              app |-> TRUE, outcome |-> "joined", before |-> store,
                              opsBefore |-> ops]
             ELSE                  /\ ops' = ops \cup {SetTimerOp(c, m, ParseInt(v), TRUE)}
                  /\ last' = [kind |-> "setTimer_call", c |-> c, m |-> m, minutes |-> v,
                              app |-> TRUE, outcome |-> "started", before |-> store,
                      opsBefore |-> ops]
          /\ UNCHANGED cooldown
  /\ UserCall
  /\ UNCHANGED <<now, store, timers, display, subscribed, firebaseListener, feed, debounce, lastProcessTime>>

\* ModalManager.submitCustomTimer() with `raw` in the minutes input.
SubmitCustomTimer(c, m, raw) ==
  LET minutes == ParseInt(raw)
  IN  IF ~minutes.nan /\ (minutes.half < 2 * MIN_DURATION \/ minutes.half > 2 * MAX_DURATION)
      THEN /\ last' = [kind |-> "setTimer_call", c |-> c, m |-> m, minutes |-> raw,
                       app |-> TRUE, outcome |-> "rejected", before |-> store,
                      opsBefore |-> ops]
           /\ UserCall
           /\ UNCHANGED <<now, store, ops, timers, display, pendingTimerStarts, cooldown,
                          subscribed, firebaseListener, feed, debounce, lastProcessTime>>
      ELSE AppSetTimer(c, m, minutes)

\* The transaction of executeSetTimerTransaction runs on the server; a
\* result that is not committed makes executeSetTimerTransaction throw.
SetTimerCommit(o) ==
  LET written == SetTimerUpdate(store[o.m], o.m, o.minutes, now)
      committed == written # Undefined
      newStore == IF committed THEN [store EXCEPT ![o.m] = written] ELSE store
      rivals == {x \in ops \ {o} : x.kind = "setTimer" /\ x.m = o.m}
  IN  /\ o.kind = "setTimer"
      /\ store' = newStore
      /\ ops' = Untrack({IF x \in rivals THEN [x EXCEPT !.raced = TRUE] ELSE x : x \in ops \ {o}},
                        o.c, o.m)
      /\ cooldown' = IF o.app THEN [cooldown EXCEPT ![o.c] = @ \cup {o.m}] ELSE cooldown
      /\ feed' = Notified(newStore)
      /\ last' = [kind |-> "setTimer", c |-> o.c, m |-> o.m, minutes |-> o.minutes,
                  prev |-> store[o.m], raced |-> o.raced \/ rivals # {},
                  committed |-> committed]
      /\ UNCHANGED <<calls, now, timers, display, pendingTimerStarts, subscribed, firebaseListener, debounce,
                     lastProcessTime>>

\* The transactions the callers awaiting a failed one start in turn, each in
\* its catch block: the last of them is the one pendingTransactions then holds.
RECURSIVE Restarted(_, _, _)
Restarted(c, m, waiters) ==
  IF waiters = <<>> THEN {}
  ELSE LET w == waiters[Len(waiters)]
           earlier == Untrack(Restarted(c, m, SubSeq(waiters, 1, Len(waiters) - 1)), c, m)
       IN  IF validateMachineId(m) /\ validateDuration(w.minutes)
           THEN earlier \cup {SetTimerOp(c, m, w.minutes, w.app)}
           ELSE earlier

\* The messages of the errors with which FirebaseService.setTimer rejects
\* once its transaction is under way: the one executeSetTimerTransaction
\* throws for a result that is not committed, and the SDK's own.
TransactionErrors ==
  {"Failed to start timer - machine may be in use", "runTransaction rejected"}

EmergencyCleanup_notcommitted(message, attempt) ==
  message = "Failed to start timer - machine may be in use" /\ attempt < MAX_RETRIES

\* error.message === 'Machine is currently in use' && attempt < maxRetries, in
\* the retry loop of LaundryApp.setTimer
EmergencyCleanup(message, attempt) ==
  message = "Machine is currently in use" /\ attempt < MAX_RETRIES

\* runTransaction of an in-flight claim rejects (the connection is lost, the
\* write is denied): the caller's finally block drops the key, and every
\* caller awaiting the promise continues with a transaction of its own.  In
\* LaundryApp.setTimer the error reaches the catch of the retry loop, whose
\* emergency branch removes the record, stops the local timer and calls
\* FirebaseService.setTimer again (its two waits are not followed).
SetTimerFail(o) ==
  \E message \in TransactionErrors :
    LET restarted == Restarted(o.c, o.m, o.waiters)
        emergency == o.app /\ EmergencyCleanup(message, o.attempt)
        newStore == IF emergency THEN [store EXCEPT ![o.m] = Absent] ELSE store
        retried == IF emergency
                   THEN {[SetTimerOp(o.c, o.m, o.minutes, TRUE) EXCEPT !.attempt = o.attempt + 1]}
                   ELSE {}
    IN  /\ o.kind = "setTimer"
        /\ ops' = Untrack(ops \ {o}, o.c, o.m) \cup restarted \cup retried
        /\ store' = newStore
        /\ feed' = Notified(newStore)
        /\ timers' = IF emergency THEN [timers EXCEPT ![o.c][o.m] = NoTimer] ELSE timers
        /\ display' = IF emergency
                      THEN [display EXCEPT ![o.c][o.m] = Disp("available", 0)]
                      ELSE display
        /\ cooldown' = IF o.app /\ ~emergency
                       THEN [cooldown EXCEPT ![o.c] = @ \cup {o.m}]
                       ELSE cooldown
        /\ last' = [kind |-> "setTimer_failed", c |-> o.c, m |-> o.m, minutes |-> o.minutes,
                    waiters |-> o.waiters, restarted |-> restarted, opsBefore |-> ops,
                    message |-> message, emergency |-> emergency]
        /\ UNCHANGED <<calls, now, pendingTimerStarts, subscribed, firebaseListener,
                       debounce, lastProcessTime>>

\* The 1 s timer set in LaundryApp.setTimer's finally block fires.
CooldownFire(c, m) ==
  /\ m \in cooldown[c]
  /\ cooldown' = [cooldown EXCEPT ![c] = @ \ {m}]
  /\ pendingTimerStarts' = [pendingTimerStarts EXCEPT ![c] = @ \ {m}]
  /\ last' = NoEvent
  /\ UNCHANGED <<calls, now, store, ops, timers, display, subscribed, firebaseListener, feed, debounce,
                 lastProcessTime>>

\* ------------------------------------------- pause / resume / stop (store)

\* `seen` is the record get() returned (const machine), `data` what set() is
\* given (Absent for remove()).
ControlOp(c, m, action, data, seen) ==
  [kind |-> "control", c |-> c, m |-> m, action |-> action, data |-> data, seen |-> seen]

\* FirebaseService.controlTimer(machineId, action) up to its write: the get(),
\* the exists() and status checks, and the record it is about to set().
\* `app` tells whether LaundryApp.controlTimer made the call.
ControlRead_lenient(c, m, action, app) ==
  LET machine == store[m]
      ev(outcome) == [kind |-> "control_call", c |-> c, m |-> m, action |-> action,
                      app |-> app, outcome |-> outcome, before |-> store,
                      opsBefore |-> ops]
  IN  IF action = "stop"
      THEN           /\ ops' = ops \cup {ControlOp(c, m, "stop", Absent, machine)}
           /\ last' = ev("started")
      ELSE /\ ops' = ops
           /\ last' = ev("invalid_state")
ControlRead_nostatus(c, m, action, app) ==
  LET machine == store[m]
      ev(outcome) == [kind |-> "control_call", c |-> c, m |-> m, action |-> action,
                      app |-> app, outcome |-> outcome, before |-> store,
                      opsBefore |-> ops]
  IN  IF ~Exists(machine)
      THEN /\ ops' = ops
           /\ last' = ev("not_found")
      ELSE IF action = "stop"
      THEN           /\ ops' = ops \cup {ControlOp(c, m, "stop", Absent, machine)}
           /\ last' = ev("started")
      ELSE IF action = "pause"
      THEN           /\ ops' = ops \cup {ControlOp(c, m, "pause", PausedData(machine, now), machine)}
           /\ last' = ev("started")
      ELSE IF machine.status # "paused"
           THEN /\ ops' = ops
                /\ last' = ev("invalid_state")
           ELSE                /\ ops' = ops \cup {ControlOp(c, m, "resume", ResumedData(machine, now), machine)}
                /\ last' = ev("started")
ControlRead(c, m, action, app) ==
  LET machine == store[m]
      ev(outcome) == [kind |-> "control_call", c |-> c, m |-> m, action |-> action,
                      app |-> app, outcome |-> outcome, before |-> store,
                      opsBefore |-> ops]
  IN  IF ~Exists(machine)
      THEN /\ ops' = ops
           /\ last' = ev("not_found")
      ELSE IF action = "stop"
      THEN           /\ ops' = ops \cup {ControlOp(c, m, "stop", Absent, machine)}
           /\ last' = ev("started")
      ELSE IF action = "pause"
      THEN IF machine.status # "active"
           THEN /\ ops' = ops
                /\ last' = ev("invalid_state")
           ELSE                /\ ops' = ops \cup {ControlOp(c, m, "pause", PausedData(machine, now), machine)}
                /\ last' = ev("started")
      ELSE IF machine.status # "paused"
           THEN /\ ops' = ops
                /\ last' = ev("invalid_state")
           ELSE                /\ ops' = ops \cup {ControlOp(c, m, "resume", ResumedData(machine, now), machine)}
                /\ last' = ev("started")

\* FirebaseService.controlTimer called directly.
SvcControl(c, m, action) ==
  /\ ControlRead(c, m, action, FALSE)
  /\ UserCall
  /\ UNCHANGED <<now, store, timers, display, pendingTimerStarts, cooldown,
                 subscribed, firebaseListener, feed, debounce, lastProcessTime>>

\* The set() or remove() of controlTimer reaches the server.
ControlWrite(o) ==
  LET newStore == [store EXCEPT ![o.m] = o.data]
  IN  /\ o.kind = "control"
      /\ store' = newStore
      /\ ops' = ops \ {o}
      /\ feed' = Notified(newStore)
      /\ last' = [kind |-> "control", c |-> o.c, m |-> o.m, action |-> o.action,
                  prev |-> store[o.m], seen |-> o.seen]
      /\ UNCHANGED <<calls, now, timers, display, pendingTimerStarts, cooldown, subscribed, firebaseListener,
                     debounce, lastProcessTime>>

\* LaundryApp.controlTimer(machineId, action): the Pause / Resume / Stop buttons.
AppControl_stored(c, m, action) ==
  LET cell == Cell(timers[c][m], display[c][m])
      after == IF action = "pause" THEN PauseCell(cell, now)
               ELSE IF action = "resume" THEN ResumeCell(cell, now)
               ELSE StopCell(cell)
  IN  /\ timers' = [timers EXCEPT ![c][m] = after.timer]
      /\ display' = [display EXCEPT ![c][m] = after.disp]
      /\ ControlRead(c, m, action, TRUE)
      /\ UserCall
      /\ UNCHANGED <<now, store, pendingTimerStarts, cooldown, subscribed, firebaseListener, feed,
                     debounce, lastProcessTime>>
AppControl(c, m, action) ==
  LET cell == Cell(timers[c][m], display[c][m])
      after == IF action = "pause" THEN PauseCell(cell, now)
               ELSE IF action = "resume" THEN ResumeCell(cell, now)
               ELSE StopCell(cell)
  IN  /\ IF ~validateMachineId(m)
         THEN /\ UNCHANGED <<timers, display, ops>>
              /\ last' = [kind |-> "control_call", c |-> c, m |-> m, action |-> action,
                          app |-> TRUE, outcome |-> "invalid_id", before |-> store,
                          opsBefore |-> ops, timersBefore |-> timers]
         ELSE /\ timers' = [timers EXCEPT ![c][m] = after.timer]
              /\ display' = [display EXCEPT ![c][m] = after.disp]
              /\ IF action = "stop"
                 THEN ControlRead(c, m, "stop", TRUE)
                 ELSE /\ ops' = ops
                      /\ last' = [kind |-> "app_control", c |-> c, m |-> m, action |-> action,
                                  acted |-> after.timer # cell.timer]
      /\ UserCall
      /\ UNCHANGED <<now, store, pendingTimerStarts, cooldown, subscribed, firebaseListener, feed,
                     debounce, lastProcessTime>>

\* --------------------------------------------------- SimpleTimer's interval

\* The setInterval callback of a registered handle runs.
TimerTick(c, m) ==
  LET after == TickCell(Cell(timers[c][m], display[c][m]), now)
  IN  /\ timers[c][m].exists
      /\ timers[c][m].interval
      /\ timers' = [timers EXCEPT ![c][m] = after.timer]
      /\ display' = [display EXCEPT ![c][m] = after.disp]
      /\ last' = [kind |-> "tick", c |-> c, m |-> m]
      /\ UNCHANGED <<calls, now, store, ops, pendingTimerStarts, cooldown, subscribed, firebaseListener, feed,
                     debounce, lastProcessTime>>

\* ------------------------------------------- TimerManager, called directly

\* TimerManager.startTimer(machineId, endTime) on the registry as it is.
StartTimer(c, m, endTime) ==
  LET after == StartCell(Cell(timers[c][m], display[c][m]), endTime, now)
  IN  /\ timers' = [timers EXCEPT ![c][m] = after.timer]
      /\ display' = [display EXCEPT ![c][m] = after.disp]
      /\ last' = [kind |-> "startTimer", c |-> c, m |-> m, endTime |-> endTime,
                  prev |-> timers[c][m]]
      /\ UserCall
      /\ UNCHANGED <<now, store, ops, pendingTimerStarts, cooldown, subscribed,
                     firebaseListener, feed, debounce, lastProcessTime>>

\* TimerManager.pauseTimer / resumeTimer / stopTimer on the registry as it is.
TimerCall(c, m, action) ==
  LET cell == Cell(timers[c][m], display[c][m])
      after == IF action = "pause" THEN PauseCell(cell, now)
               ELSE IF action = "resume" THEN ResumeCell(cell, now)
               ELSE StopCell(cell)
  IN  /\ timers' = [timers EXCEPT ![c][m] = after.timer]
      /\ display' = [display EXCEPT ![c][m] = after.disp]
      /\ last' = [kind |-> "timer_call", c |-> c, m |-> m, action |-> action,
                  prev |-> timers[c][m]]
      /\ UserCall
      /\ UNCHANGED <<now, store, ops, pendingTimerStarts, cooldown, subscribed,
                     firebaseListener, feed, debounce, lastProcessTime>>

\* ------------------------------------------------ change feed and the sweep

\* Object.entries(data) lists the machines in the order of their keys.
KeyOrder ==
  <<"dryer_1", "dryer_2", "dryer_3", "dryer_4",
    "washer_1", "washer_2", "washer_3", "washer_4", "washer_9">>
KeyRank(m) == CHOOSE i \in 1..Len(KeyOrder) : KeyOrder[i] = m

\* The index of the slice of batchCleanupExpiredTimers that holds the
\* candidate: expiredTimers.slice(i, i + BATCH_SIZE) for i = 0, 2, ...
BatchOf_single(cand, expiredTimers) == 0
BatchOf(cand, expiredTimers) ==
  Cardinality({x \in expiredTimers : KeyRank(x.machineId) < KeyRank(cand.machineId)})
    \div BATCH_SIZE

\* One atomicExpireTimer call of a sweep over expiredTimers: `attempts` counts
\* the rejections executeWithCircuitBreaker has caught so far.
ExpireOp(c, cand, expiredTimers) ==
  [kind |-> "expire", c |-> c, m |-> cand.machineId, expectedEndTime |-> cand.endTime,
   sweep |-> expiredTimers, batch |-> BatchOf(cand, expiredTimers), attempts |-> 0]

\* The batches of one batchCleanupExpiredTimers call run one after the other:
\* a call of a later batch is made once every call of the earlier ones has settled.
BatchTurn(o) ==
  ~\E p \in ops : /\ p.kind = "expire" /\ p.c = o.c /\ p.sweep = o.sweep
                   /\ p.batch < o.batch

\* attempts >= maxRetries in the catch of executeWithCircuitBreaker
CircuitOpen_late(attempts) == attempts >= CIRCUIT_MAX_RETRIES + 1
CircuitOpen(attempts) == attempts >= CIRCUIT_MAX_RETRIES

\* What atomicExpireTimer resolves with: after a transaction that committed,
\* one that aborted, and in its catch block.
ExpireResult(outcome) ==
  [success |-> outcome = "committed",
   reason |-> CASE outcome = "committed" -> "atomic_expiration"
                [] outcome = "aborted" -> "timer_modified_or_expired"
                [] OTHER -> "operation_failed"]

\* What becomes of the other calls of a sweep when one of them has failed for
\* good: the .catch and Promise.allSettled of batchCleanupExpiredTimers keep them.
AfterFailure_abandon(os, o) ==
  {p \in os : ~(p.kind = "expire" /\ p.c = o.c /\ p.sweep = o.sweep)}
AfterFailure(os, o) == os \ {o}

\* processUpdate(snapshot) of listenToMachines, with syncTimers and the
\* callback of startRealtimeSync, both of which run updateAllMachines.
ProcessUpdate(c, data, via) ==
  LET expiredTimers == identifyExpiredTimers(data, now)
      sweep == expiredTimers # {} /\ ~hasShortTimers(data, now)
      issued == IF sweep THEN {ExpireOp(c, cand, expiredTimers) : cand \in expiredTimers} ELSE {}
      machines == processMachineData(data, now)
      once(m) == UpdateOneCell(Cell(timers[c][m], display[c][m]), machines[m], now)
      twice(m) == UpdateOneCell(once(m), machines[m], now)
  IN  /\ lastProcessTime' = [lastProcessTime EXCEPT ![c] = now]
      /\ ops' = ops \cup issued
      /\ timers' = [timers EXCEPT ![c] = [m \in Machines |-> twice(m).timer]]
      /\ display' = [display EXCEPT ![c] = [m \in Machines |-> twice(m).disp]]
      /\ last' = [kind |-> "reconcile", c |-> c, data |-> data,
                  candidates |-> expiredTimers, swept |-> sweep, issued |-> issued,
                  via |-> via, quiet |-> now - lastProcessTime[c]]

\* The onValue listener of listenToMachines receives a value event.
Deliver(c) ==
  LET cleared == clearTimeout(debounce[c])
      burst == IF debounce[c].timeout.has THEN debounce[c].timeout.burst + 1 ELSE 1
      timer == DebounceTimer(feed[c].data, now, burst)
      cancelled == debounce[c].pending \ cleared.pending
  IN  /\ subscribed[c]
      /\ feed[c].has
      /\ feed' = [feed EXCEPT ![c] = NoSnap]
      /\ IF RateLimited(now, lastProcessTime[c])
         THEN /\ debounce' = [debounce EXCEPT ![c] =
                               [timeout |-> timer, pending |-> cleared.pending \cup {timer}]]
              /\ last' = [kind |-> "debounced", c |-> c, data |-> feed[c].data,
                          quiet |-> now - lastProcessTime[c], cancelled |-> cancelled]
              /\ UNCHANGED <<ops, timers, display, lastProcessTime>>
         ELSE /\ debounce' = [debounce EXCEPT ![c] = cleared]
              /\ ProcessUpdate(c, feed[c].data, [by |-> "listener", cancelled |-> cancelled])
  /\ UNCHANGED <<calls, now, store, pendingTimerStarts, cooldown, subscribed, firebaseListener>>

\* The callback of the debounce timeout t runs: processUpdate(snapshot).
FireTimeout(c, t) ==
  /\ t \in debounce[c].pending
  /\ debounce' = [debounce EXCEPT ![c] =
                    [timeout |-> IF @.timeout = t THEN NoSnap ELSE @.timeout,
                     pending |-> @.pending \ {t}]]
  /\ ProcessUpdate(c, t.data, [by |-> "debounce", timer |-> t, latest |-> debounce[c].timeout])

\* The 500 ms debounce timer fires, under the coarse clock: inside the clock
\* step in which it was set.
DebounceFire(c) ==
  /\ \E t \in debounce[c].pending : FireTimeout(c, t)
  /\ UNCHANGED <<calls, now, store, pendingTimerStarts, cooldown, subscribed, firebaseListener, feed>>

\* A client whose page is not followed here handles a value event: the sweep
\* part of its processUpdate, over the data as it now is.
RemoteSweep(r) ==
  LET expiredTimers == identifyExpiredTimers(store, now)
      issued == {ExpireOp(r, cand, expiredTimers) : cand \in expiredTimers}
  IN  /\ expiredTimers # {}
      /\ ~hasShortTimers(store, now)
      /\ ops' = ops \cup issued
      /\ last' = [kind |-> "reconcile", c |-> r, data |-> store,
                  candidates |-> expiredTimers, swept |-> TRUE, issued |-> issued]
      /\ UNCHANGED <<calls, now, store, timers, display, pendingTimerStarts, cooldown,
                     subscribed, firebaseListener, feed, debounce, lastProcessTime>>

\* The transaction of atomicExpireTimer runs on the server.
ExpireTxn(o) ==
  LET delete == ExpireDecision(store[o.m], o.expectedEndTime, now)
      newStore == IF delete THEN [store EXCEPT ![o.m] = Absent] ELSE store
  IN  /\ o.kind = "expire"
      /\ BatchTurn(o)
      /\ store' = newStore
      /\ ops' = ops \ {o}
      /\ feed' = Notified(newStore)
      /\ last' = [kind |-> "expire", c |-> o.c, m |-> o.m,
                  expectedEndTime |-> o.expectedEndTime,
                  prev |-> store[o.m], deleted |-> delete, op |-> o,
                  invocations |-> o.attempts + 1,
                  result |-> ExpireResult(IF delete THEN "committed" ELSE "aborted")]
      /\ UNCHANGED <<calls, now, timers, display, pendingTimerStarts, cooldown, subscribed, firebaseListener,
                     debounce, lastProcessTime>>

\* runTransaction of atomicExpireTimer rejects (the connection is lost, the
\* write is denied).  executeWithCircuitBreaker counts the attempt and either
\* calls the operation again (its backoff wait is not followed) or throws,
\* and then atomicExpireTimer's catch resolves with a failure value.
ExpireFail(o) ==
  LET attempts == o.attempts + 1
      open == CircuitOpen(attempts)
  IN  /\ o.kind = "expire"
      /\ BatchTurn(o)
      /\ ops' = IF open THEN AfterFailure(ops, o)
                ELSE (ops \ {o}) \cup {[o EXCEPT !.attempts = attempts]}
      /\ last' = [kind |-> IF open THEN "expire_failed" ELSE "expire_retry",
                  c |-> o.c, m |-> o.m, op |-> o, invocations |-> attempts,
                  result |-> ExpireResult("rejected"), opsBefore |-> ops]
      /\ UNCHANGED <<calls, now, store, feed, timers, display, pendingTimerStarts, cooldown,
                     subscribed, firebaseListener, debounce, lastProcessTime>>

\* ------------------------------------------------------------ page reload

\* The page is closed (LaundryApp.cleanup) and loaded again: a new LaundryApp,
\* an empty timer registry, a new listener, which receives the current data.
Reload(c) ==
  /\ \A o \in ops : o.c # c
  /\ timers' = [timers EXCEPT ![c] = [m \in Machines |-> NoTimer]]
  /\ display' = [display EXCEPT ![c] = [m \in Machines |-> Disp("available", 0)]]
  /\ pendingTimerStarts' = [pendingTimerStarts EXCEPT ![c] = {}]
  /\ cooldown' = [cooldown EXCEPT ![c] = {}]
  /\ subscribed' = [subscribed EXCEPT ![c] = TRUE]
  /\ firebaseListener' = [firebaseListener EXCEPT ![c] = TRUE]
  /\ feed' = [feed EXCEPT ![c] = Snap(store)]
  /\ debounce' = [debounce EXCEPT ![c] = NoDebounce]
  /\ lastProcessTime' = [lastProcessTime EXCEPT ![c] = 0]
  /\ last' = [kind |-> "reload", c |-> c]
  /\ UserCall
  /\ UNCHANGED <<now, store, ops>>

\* -------------------------------------------- unsubscribing and teardown

\* off(machinesRef, listener), in the unsubscribe closure and in
\* FirebaseService.cleanup.  `listener` is what onValue returned (a function
\* that unsubscribes) and goes where off() takes the event type; the
\* callback that was attached is not passed, and the returned function is
\* never called.  The call is outside off()'s signature, so this code does
\* not decide that the value listener is removed: both outcomes are followed.
\* The result is whether the listener is attached afterwards.
off(attached) == IF attached THEN BOOLEAN ELSE {FALSE}

\* The unsubscribe closure listenToMachines returns, with the listener left
\* attached or not.
Unsubscribe(c, still) ==
  /\ debounce' = [debounce EXCEPT ![c] = clearTimeout(@)]
  /\ subscribed' = [subscribed EXCEPT ![c] = still]
  /\ feed' = [feed EXCEPT ![c] = IF still THEN @ ELSE NoSnap]

\* LaundryApp.stopRealtimeSync(), as the page is hidden.
StopRealtimeSync(c) ==
  /\ firebaseListener[c]
  /\ \E still \in off(subscribed[c]) :
       /\ Unsubscribe(c, still)
       /\ last' = [kind |-> "unsubscribe", c |-> c, attached |-> still,
                   cleared |-> debounce[c].pending]
  /\ firebaseListener' = [firebaseListener EXCEPT ![c] = FALSE]
  /\ UserCall
  /\ UNCHANGED <<now, store, ops, timers, display, pendingTimerStarts, cooldown,
                 lastProcessTime>>

\* LaundryApp.cleanup(): stopRealtimeSync, TimerManager.cleanupAllTimers and
\* FirebaseService.cleanup, whose listeners map the unsubscribe closure has
\* emptied.
Cleanup(c) ==
  /\ IF firebaseListener[c]
     THEN \E still \in off(subscribed[c]) : Unsubscribe(c, still)
     ELSE UNCHANGED <<debounce, subscribed, feed>>
  /\ firebaseListener' = [firebaseListener EXCEPT ![c] = FALSE]
  /\ timers' = [timers EXCEPT ![c] = [m \in Machines |-> NoTimer]]
  /\ last' = [kind |-> "cleanup", c |-> c, timersBefore |-> timers[c]]
  /\ UserCall
  /\ UNCHANGED <<now, store, ops, display, pendingTimerStarts, cooldown, lastProcessTime>>

\* ---------------------------------------------------------- the fine clock

\* The times at which the pending debounce timeouts are due.
Dues == UNION {{t.due : t \in debounce[c].pending} : c \in Clients}

\* Time passes in steps short enough to follow the listener's 2000 ms and
\* 500 ms: a step ends at the next due timeout if there is one before its end,
\* and a timeout that is due fires before the clock moves on.
Wait ==
  LET target == now + FeedTick
      sooner == {d \in Dues : d < target}
  IN  /\ now < Epoch + MaxWaits * FeedTick
      /\ \A d \in Dues : d > now
      /\ now' = IF sooner = {} THEN target ELSE CHOOSE d \in sooner : \A e \in sooner : d <= e
      /\ last' = NoEvent
      /\ UNCHANGED <<calls, store, ops, timers, display, pendingTimerStarts, cooldown,
                     subscribed, firebaseListener, feed, debounce, lastProcessTime>>

\* The 500 ms debounce timer fires, under the fine clock: when it is due.
DebounceDue(c) ==
  /\ \E t \in debounce[c].pending : now >= t.due /\ FireTimeout(c, t)
  /\ UNCHANGED <<calls, now, store, pendingTimerStarts, cooldown, subscribed, firebaseListener,
                 feed>>

\* ------------------------------------------------------ the specifications

\* Durations (minutes) the users ask for.
MainDurations == {Num(1), Num(3)}
ControlActions == {"pause", "resume", "stop"}

\* Spec: the shared store and the store operations of two clients (claim,
\* pause, resume, stop, sweep), in every interleaving.  Their pages are not
\* followed: the store operations do not read them.
StoreMachines == {"washer_1"}

Init == InitFor({}, StoreMachines)

Next ==
  \/ Advance
  \/ \E c \in Remotes, m \in Machines, v \in MainDurations : SvcSetTimer(c, m, v)
  \/ \E o \in ops : SetTimerCommit(o)
  \/ \E c \in Remotes, m \in Machines, a \in ControlActions : SvcControl(c, m, a)
  \/ \E o \in ops : ControlWrite(o)
  \/ \E r \in Remotes : RemoteSweep(r)
  \/ \E o \in ops : ExpireTxn(o)

Spec == Init /\ [][Next]_vars

\* SpecApp: one client followed in full (its page, timers, listener and the
\* buttons of its UI), with another client writing to the same store.
AppClients == {"c1"}
AppMachines == {"washer_1"}
AppRemote == "r1"
RemoteDuration == Num(3)

InitApp == InitFor(AppClients, AppMachines)

NextApp ==
  \/ Advance
  \/ \E c \in Clients, m \in Machines, v \in MainDurations : AppSetTimer(c, m, v)
  \/ \E m \in Machines : SvcSetTimer(AppRemote, m, RemoteDuration)
  \/ \E o \in ops : SetTimerCommit(o)
  \/ \E c \in Clients, m \in Machines : CooldownFire(c, m)
  \/ \E m \in Machines, a \in ControlActions : SvcControl(AppRemote, m, a)
  \/ \E o \in ops : ControlWrite(o)
  \/ \E c \in Clients, m \in Machines, a \in ControlActions : AppControl(c, m, a)
  \/ \E c \in Clients, m \in Machines : TimerTick(c, m)
  \/ \E c \in Clients : Deliver(c)
  \/ \E c \in Clients : DebounceFire(c)
  \/ \E o \in ops : ExpireTxn(o)
  \/ \E c \in Clients : Reload(c)

SpecApp == InitApp /\ [][NextApp]_vars

\* SpecInput: one client and the three ways a duration reaches a claim: the
\* custom-timer modal, LaundryApp.setTimer and FirebaseService.setTimer.
InputValues ==
  {Num(-1), Num(0), HalfNum(1), Num(1), Num(120), HalfNum(241), Num(121), NaNValue}

InitInput == InitFor({"c1"}, {"washer_1"})

NextInput ==
  \/ Advance
  \/ \E c \in Clients, m \in Machines, raw \in InputValues : SubmitCustomTimer(c, m, raw)
  \/ \E c \in Clients, m \in Machines, v \in InputValues : AppSetTimer(c, m, v)
  \/ \E c \in Clients, m \in Machines, v \in InputValues : SvcSetTimer(c, m, v)
  \/ \E o \in ops : SetTimerCommit(o)
  \/ \E c \in Clients, m \in Machines : CooldownFire(c, m)
  \/ \E c \in Clients : Deliver(c)
  \/ \E c \in Clients : DebounceFire(c)

SpecInput == InitInput /\ [][NextInput]_vars

\* SpecIds: one client and its calls, through LaundryApp and through
\* FirebaseService directly, with machine ids inside and outside the valid set.
IdMachines == {"washer_1", "washer_9"}
IdDuration == Num(1)

InitIds == InitFor({"c1"}, IdMachines)

NextIds ==
  \/ Advance
  \/ \E c \in Clients, m \in Machines : AppSetTimer(c, m, IdDuration)
  \/ \E c \in Clients, m \in Machines : SvcSetTimer(c, m, IdDuration)
  \/ \E o \in ops : SetTimerCommit(o)
  \/ \E c \in Clients, m \in Machines : CooldownFire(c, m)
  \/ \E c \in Clients, m \in Machines, a \in ControlActions : SvcControl(c, m, a)
  \/ \E o \in ops : ControlWrite(o)
  \/ \E c \in Clients, m \in Machines, a \in ControlActions : AppControl(c, m, a)
  \/ \E c \in Clients, m \in Machines : TimerTick(c, m)
  \/ \E c \in Clients : Deliver(c)
  \/ \E c \in Clients : DebounceFire(c)
  \/ \E o \in ops : ExpireTxn(o)

SpecIds == InitIds /\ [][NextIds]_vars

\* SpecSweep: two machines, claimed by another client, and the reconciliation
\* passes (with their sweeps) of one client followed in full.
SweepMachines == {"washer_1", "dryer_1"}

InitSweep == InitFor({"c1"}, SweepMachines)

NextSweep ==
  \/ Advance
  \/ \E m \in Machines, v \in MainDurations : SvcSetTimer(AppRemote, m, v)
  \/ \E o \in ops : SetTimerCommit(o)
  \/ \E c \in Clients : Deliver(c)
  \/ \E c \in Clients : DebounceFire(c)
  \/ \E o \in ops : ExpireTxn(o)

SpecSweep == InitSweep /\ [][NextSweep]_vars

\* SpecFail: the claims of two clients on a connection that can fail: a
\* transaction in flight either commits or is rejected.
InitFail == InitFor({}, StoreMachines)

NextFail ==
  \/ Advance
  \/ \E c \in Remotes, m \in Machines, v \in MainDurations : SvcSetTimer(c, m, v)
  \/ \E o \in ops : SetTimerCommit(o)
  \/ \E o \in ops : SetTimerFail(o)

SpecFail == InitFail /\ [][NextFail]_vars

\* SpecBatch: three machines with the records of claims just made, one of
\* them claimed again later, swept by another client on a connection on which
\* the sweeper's transactions can be rejected.  The sweeper's passes are
\* followed one sweep at a time: a pass starts when the calls of the sweep
\* before it have settled.
BatchMachines == {"dryer_1", "washer_1", "washer_2"}

BatchDuration == Num(1)

InitBatch ==
  InitStore(Epoch, {},
            [m \in BatchMachines |-> SetTimerUpdate(Absent, m, BatchDuration, Epoch)])

NextBatch ==
  \/ Advance
  \/ SvcSetTimer("r1", "washer_1", BatchDuration)
  \/ \E o \in ops : SetTimerCommit(o)
  \/ (\A o \in ops : o.kind # "expire") /\ RemoteSweep("r2")
  \/ \E o \in ops : ExpireTxn(o)
  \/ \E o \in ops : ExpireFail(o)

SpecBatch == InitBatch /\ [][NextBatch]_vars

\* SpecTick: the ticks of one client's handles, for records claimed by
\* another client and swept by it.
InitTick == InitFor({"c1"}, StoreMachines)

NextTick ==
  \/ Advance
  \/ \E m \in Machines, v \in MainDurations : SvcSetTimer(AppRemote, m, v)
  \/ \E o \in ops : SetTimerCommit(o)
  \/ \E c \in Clients : Deliver(c)
  \/ \E c \in Clients : DebounceFire(c)
  \/ \E c \in Clients, m \in Machines : TimerTick(c, m)
  \/ RemoteSweep(AppRemote)
  \/ \E o \in ops : ExpireTxn(o)

SpecTick == InitTick /\ [][NextTick]_vars

\* SpecFeed: one client's listener under the fine clock, with another client
\* claiming and stopping the machine in bursts, and the client unsubscribing,
\* tearing down and reloading.
InitFeed == InitFor({"c1"}, {"washer_1"})

NextFeed ==
  \/ Wait
  \/ \E m \in Machines : SvcSetTimer(AppRemote, m, RemoteDuration)
  \/ \E o \in ops : SetTimerCommit(o)
  \/ \E m \in Machines : SvcControl(AppRemote, m, "stop")
  \/ \E o \in ops : ControlWrite(o)
  \/ \E c \in Clients : Deliver(c)
  \/ \E c \in Clients : DebounceDue(c)
  \/ \E c \in Clients, m \in Machines : TimerTick(c, m)
  \/ \E c \in Clients : StopRealtimeSync(c)
  \/ \E c \in Clients : Cleanup(c)
  \/ \E c \in Clients : Reload(c)

SpecFeed == InitFeed /\ [][NextFeed]_vars

\* SpecTimers: the timer registry of one client, driven by the reconciliation
\* passes and by direct calls of TimerManager with end times that are past,
\* one and two minutes ahead.
StartOffsets == {0, MS_PER_MINUTE, 2 * MS_PER_MINUTE}

InitTimers == InitFor({"c1"}, {"washer_1"})

NextTimers ==
  \/ Advance
  \/ \E c \in Clients, m \in Machines, d \in StartOffsets : StartTimer(c, m, now + d)
  \/ \E c \in Clients, m \in Machines, a \in ControlActions : TimerCall(c, m, a)
  \/ \E c \in Clients, m \in Machines : TimerTick(c, m)
  \/ \E m \in Machines : SvcSetTimer(AppRemote, m, RemoteDuration)
  \/ \E o \in ops : SetTimerCommit(o)
  \/ \E c \in Clients : Deliver(c)
  \/ \E c \in Clients : DebounceFire(c)

SpecTimers == InitTimers /\ [][NextTimers]_vars

\* SpecLive: the claims of one client through LaundryApp.setTimer, on a
\* store whose transactions end: a transaction in flight is committed or
\* rejected in the end (the server answers), and the 1 s cooldown timer fires.
InitLive == InitFor(AppClients, AppMachines)

NextLive ==
  \/ Advance
  \/ \E c \in Clients, m \in Machines, v \in MainDurations : AppSetTimer(c, m, v)
  \/ \E o \in ops : SetTimerCommit(o)
  \/ \E o \in ops : SetTimerFail(o)
  \/ \E c \in Clients, m \in Machines : CooldownFire(c, m)

\* SpecScenario: the worked examples of the specification, on a clock that
\* starts at 0 and stops at the times the examples name: washer_1 claimed for
\* 29 minutes, dryer_2 claimed for 60 minutes, paused and resumed, with one
\* client's page following the store.
ScenarioTimes == {600000, 610000, 1739999, 1740001}
ScenarioMachines == {"washer_1", "dryer_2"}
ScenarioMinutes(m) == IF m = "washer_1" THEN Num(29) ELSE Num(60)

\* Time passes up to the next time of interest; the short timers have fired.
Elapse(t) ==
  /\ t > now
  /\ \A c \in Clients : cooldown[c] = {} /\ debounce[c].pending = {}
  /\ now' = t
  /\ last' = NoEvent
  /\ UNCHANGED <<calls, store, ops, timers, display, pendingTimerStarts, cooldown,
                 subscribed, firebaseListener, feed, debounce, lastProcessTime>>

InitScenario == InitAt(0, {"c1"}, ScenarioMachines)

NextScenario ==
  \/ \E t \in ScenarioTimes : Elapse(t)
  \/ \E m \in Machines : SvcSetTimer(AppRemote, m, ScenarioMinutes(m))
  \/ \E o \in ops : SetTimerCommit(o)
  \/ \E a \in {"pause", "resume"} : SvcControl(AppRemote, "dryer_2", a)
  \/ \E o \in ops : ControlWrite(o)
  \/ \E c \in Clients : Deliver(c)
  \/ \E c \in Clients : DebounceFire(c)
  \/ \E c \in Clients, m \in Machines : TimerTick(c, m)

SpecScenario == InitScenario /\ [][NextScenario]_vars

\* SpecWrites: every path of the program that writes to the store: the claims
\* of one client through LaundryApp.setTimer, with transactions that can be
\* rejected, the pause / resume / stop writes and the sweeps.
InitWrites == InitFor(AppClients, AppMachines)

NextWrites ==
  \/ Advance
  \/ \E c \in Clients, m \in Machines, v \in MainDurations : AppSetTimer(c, m, v)
  \/ \E o \in ops : SetTimerCommit(o)
  \/ \E o \in ops : SetTimerFail(o)
  \/ \E c \in Clients, m \in Machines : CooldownFire(c, m)
  \/ \E c \in Clients, m \in Machines, a \in ControlActions : AppControl(c, m, a)
  \/ \E o \in ops : ControlWrite(o)
  \/ \E r \in {AppRemote} : RemoteSweep(r)
  \/ \E o \in ops : ExpireTxn(o)

SpecWrites == InitWrites /\ [][NextWrites]_vars

SpecLive ==
  /\ InitLive
  /\ [][NextLive]_vars
  /\ WF_vars(\E o \in ops : SetTimerCommit(o))
  /\ WF_vars(\E c \in AppClients, m \in AppMachines : CooldownFire(c, m))

\* ------------------------------------------------------------ properties

\* The record a claim of `minutes` whole minutes committed at time t leaves.
FreshRecord(m, minutes, t) ==
  [machine_id |-> m, status |-> "active", end_time |-> t + minutes * 60000,
   updated_at |-> t, duration_minutes |-> minutes]

PauseFields == {"paused_at", "paused_time_remaining"}

WholeMinutes(v) == ~v.nan /\ v.half % 2 = 0

\* C1: a claim with whole minutes in 1..120 commits whatever the record of the
\* machine was (absent, active with any time remaining, paused), and leaves a
\* fresh active record: end_time = now + minutes*60000, duration_minutes =
\* minutes, no pause fields.
C1_ClaimOverridesAnyState ==
  (last.kind = "setTimer" /\ WholeMinutes(last.minutes)
     /\ IntOf(last.minutes) \in MIN_DURATION..MAX_DURATION)
  => /\ last.committed
     /\ store[last.m] = FreshRecord(last.m, IntOf(last.minutes), now)
     /\ (DOMAIN store[last.m]) \cap PauseFields = {}

\* C1 witness: a claim has just replaced a running timer that had more than
\* a minute left.
C1_Witness ==
  /\ last.kind = "setTimer"
  /\ last.committed
  /\ last.prev.status = "active"
  /\ last.prev.end_time - now > MS_PER_MINUTE
  /\ store[last.m].end_time # last.prev.end_time

\* C2: when two clients' claims for a machine were in flight together and
\* both have run, the machine holds one active record, the one the later
\* claim wrote in full: every field comes from that write.
C2_ConcurrentClaimsNoMix ==
  (last.kind = "setTimer" /\ last.raced
     /\ ~(\E o \in ops : o.kind = "setTimer" /\ o.m = last.m))
  => LET rec == store[last.m]
     IN  /\ rec.status = "active"
         /\ DOMAIN rec = {"machine_id", "status", "end_time", "updated_at", "duration_minutes"}
         /\ rec.updated_at = now
         /\ rec.duration_minutes = IntOf(last.minutes)
         /\ rec.end_time = rec.updated_at + rec.duration_minutes * 60000

\* C2 witness: the second of two concurrent claims of different clients, with
\* different durations, has committed over the first one's record.
C2_Witness ==
  /\ last.kind = "setTimer"
  /\ last.raced
  /\ ~(\E o \in ops : o.kind = "setTimer" /\ o.m = last.m)
  /\ last.prev.status = "active"
  /\ last.prev.duration_minutes # IntOf(last.minutes)

\* C3: a sweep's compare-and-delete for a candidate identified with end time E
\* deletes only a record whose end_time is E at the time of the delete.
C3_SweepComparesEndTime ==
  (last.kind = "expire" /\ last.deleted) => last.prev.end_time = last.expectedEndTime

\* C3 witness: a compare-and-delete ran against a record whose end_time had
\* been replaced since the candidate was identified, and did not delete it.
C3_Witness ==
  /\ last.kind = "expire"
  /\ Exists(last.prev)
  /\ last.prev.end_time # last.expectedEndTime
  /\ ~last.deleted
  /\ Exists(store[last.m])

\* C4: a sweep's compare-and-delete never deletes a record with more than
\* 30000 ms remaining when the transaction runs.
C4_SweepNeverDeletesLive ==
  (last.kind = "expire" /\ last.deleted) => last.prev.end_time - now <= 30000

\* C4 witness: a compare-and-delete ran against a record that had been
\* extended to more than 30000 ms remaining, and left it in the store.
C4_Witness ==
  /\ last.kind = "expire"
  /\ Exists(last.prev)
  /\ last.prev.end_time - now > 30000
  /\ ~last.deleted
  /\ store[last.m] = last.prev

\* C5 (as claimed): a record that is paused is removed from the store only by
\* an explicit stop, never by a sweep's compare-and-delete.
C5_PausedRemovedOnlyByStop ==
  (last.kind \in {"expire", "control", "setTimer"}
     /\ last.prev.status = "paused" /\ ~Exists(store[last.m]))
  => (last.kind = "control" /\ last.action = "stop")

\* C6: the display derived for a machine is available/0 for no record,
\* paused with paused_time_remaining for a paused record, available/0 for an
\* active record with end_time - now <= 30000 (so always once end_time <= now),
\* and otherwise active with ceil((end_time - now)/60000) minutes and the
\* record's end_time as server_end_time.
C6_DeriveDisplay ==
  \A m \in Machines :
    LET rec == store[m]
        d == processMachineData(store, now)[m]
    IN  /\ ~Exists(rec) => d.status = "available" /\ d.time_remaining_minutes = 0
        /\ rec.status = "paused" =>
             d.status = "paused" /\ d.time_remaining_minutes = rec.paused_time_remaining
        /\ (rec.status = "active" /\ rec.end_time - now <= 30000) =>
             d.status = "available" /\ d.time_remaining_minutes = 0
        /\ (rec.status = "active" /\ rec.end_time - now > 30000) =>
             /\ d.status = "active"
             /\ d.server_end_time = rec.end_time
             /\ (d.time_remaining_minutes - 1) * 60000 < rec.end_time - now
             /\ rec.end_time - now <= d.time_remaining_minutes * 60000

\* C6 witness: an active record whose end time has passed is still in the
\* store (no sweep has removed it) and is derived as available.
C6_Witness ==
  \E m \in Machines :
    /\ store[m].status = "active"
    /\ store[m].end_time <= now
    /\ processMachineData(store, now)[m].status = "available"

\* C7 (as claimed): a machine the user has paused through the client is paused
\* in the shared store, so what any client derives from the store is paused.
C7_AppPauseHeldInStore ==
  \A c \in Clients, m \in Machines :
    (timers[c][m].exists /\ timers[c][m].isPaused)
    => processMachineData(store, now)[m].status = "paused"

\* C8 (as claimed): after a reconciliation pass over a snapshot in which a
\* machine is active with end time E and more than 30000 ms remaining, the
\* client's handle for it, unless locally paused, counts down to E.
C8_HandleFollowsStore ==
  (last.kind = "reconcile" /\ last.c \in Clients)
  => \A m \in Machines :
       LET d == processMachineData(last.data, now)[m]
           h == timers[last.c][m]
       IN  d.status = "active"
           => /\ h.exists
              /\ ~h.isPaused => (h.interval /\ h.endTime = d.server_end_time)

OutsideRange(v) == v.nan \/ v.half < 2 * 1 \/ v.half > 2 * 120

\* C10 (as claimed): a claim with a duration outside 1..120 is rejected with an
\* error, and no transaction runs for it.
C10_OutOfRangeRejected ==
  /\ (last.kind = "setTimer_call" /\ OutsideRange(last.minutes)) => last.outcome = "rejected"
  /\ \A o \in ops : o.kind = "setTimer" => ~OutsideRange(o.minutes)

\* C11 (as claimed): claim, pause, resume and stop with a machine id outside
\* washer_1..4, dryer_1..4 are each rejected with a validation error, and the
\* store, the operations in flight and the client's timer registry stay as
\* they were.
C11_InvalidIdRejected ==
  (last.kind \in {"setTimer_call", "control_call"} /\ ~validateMachineId(last.m))
  => /\ last.outcome = "invalid_id"
     /\ store = last.before
     /\ ops = last.opsBefore
     /\ timers = last.timersBefore

\* C12 (as claimed): a pause of an active record stores status paused with
\* paused_time_remaining = ceil(max(0, end_time - now)/60000), now being the
\* time of the pause; the stored minutes are never negative.
C12_PauseStoresNonNegative ==
  (last.kind = "control" /\ last.action = "pause")
  => LET rec == store[last.m]
     IN  /\ rec.status = "paused"
         /\ rec.paused_time_remaining =
              CeilDiv(Max(0, last.seen.end_time - rec.paused_at), 60000)
         /\ rec.paused_time_remaining >= 0

\* The control operations the call just made started.
StartedControl == {o \in ops : o.kind = "control" /\ o.c = last.c /\ o.m = last.m
                                /\ o.action = last.action /\ o.seen = last.before[last.m]
                                /\ o.data.updated_at = now}

\* C13: a resume of a paused record writes status active with end_time = now +
\* paused_time_remaining*60000, now being the time of the resume call, and the
\* written record has neither paused_at nor paused_time_remaining.
C13_ResumeStoresEndTime ==
  /\ (last.kind = "control_call" /\ last.action = "resume" /\ last.outcome = "started")
     => /\ StartedControl # {}
        /\ \A o \in StartedControl :
             /\ o.data.status = "active"
             /\ o.data.end_time = now + last.before[last.m].paused_time_remaining * 60000
             /\ o.data.resumed_at = now
             /\ DOMAIN o.data \cap PauseFields = {}
  /\ (last.kind = "control" /\ last.action = "resume")
     => LET rec == store[last.m]
        IN  /\ rec.status = "active"
            /\ rec.end_time = rec.resumed_at + last.seen.paused_time_remaining * 60000
            /\ DOMAIN rec \cap PauseFields = {}

\* C13 witness: a resume has landed some time after the pause, so that the new
\* end_time differs from the one the paused record still carried.
C13_Witness ==
  /\ last.kind = "control" /\ last.action = "resume"
  /\ last.seen.paused_time_remaining > 0
  /\ store[last.m].end_time > last.seen.end_time
  /\ store[last.m].resumed_at > last.seen.paused_at

\* C14: a pause of a record that is not active and a resume of a record that
\* is not paused fail with an error, start no write, and leave the store as it
\* was.
C14_WrongStateRejected ==
  (/\ last.kind = "control_call"
   /\ \/ last.action = "pause" /\ last.before[last.m].status # "active"
      \/ last.action = "resume" /\ last.before[last.m].status # "paused")
  => /\ last.outcome \in {"not_found", "invalid_state"}
     /\ store = last.before
     /\ ops = last.opsBefore

\* C14 witness: a pause of a paused record and a resume of an active record
\* were rejected.
C14_Witness ==
  /\ last.kind = "control_call" /\ last.outcome = "invalid_state"
  /\ \/ last.action = "pause" /\ last.before[last.m].status = "paused"
     \/ last.action = "resume" /\ last.before[last.m].status = "active"

\* What the machine card showed for the record `rec` was paused from, at the
\* time of that pause.
ShownBeforePause(m, rec) ==
  ProcessMachine(m, [rec EXCEPT !.status = "active"], rec.paused_at).time_remaining_minutes

AbsDiff(a, b) == IF a >= b THEN a - b ELSE b - a

\* C15: for a record paused while it had time remaining, the record a resume
\* writes is active and the minutes displayed for it at the time of the resume
\* (and when the write lands within a minute of it) differ by at most 1 from
\* the minutes displayed right before the pause, however long the pause was.
C15_PauseResumeRoundTrip ==
  /\ (/\ last.kind = "control_call" /\ last.action = "resume" /\ last.outcome = "started"
      /\ last.before[last.m].end_time - last.before[last.m].paused_at > 0)
     => /\ StartedControl # {}
        /\ \A o \in StartedControl :
             /\ o.data.status = "active"
             /\ AbsDiff(ProcessMachine(last.m, o.data, now).time_remaining_minutes,
                        ShownBeforePause(last.m, last.before[last.m])) <= 1
  /\ (/\ last.kind = "control" /\ last.action = "resume"
      /\ last.seen.end_time - last.seen.paused_at > 0
      /\ now - store[last.m].resumed_at < 60000)
     => /\ store[last.m].status = "active"
        /\ AbsDiff(ProcessMachine(last.m, store[last.m], now).time_remaining_minutes,
                   ShownBeforePause(last.m, last.seen)) <= 1

\* C15 witness: a record paused with more than a minute left is resumed after
\* the clock has moved on.
C15_Witness ==
  /\ last.kind = "control_call" /\ last.action = "resume" /\ last.outcome = "started"
  /\ ShownBeforePause(last.m, last.before[last.m]) >= 2
  /\ now > last.before[last.m].paused_at

\* C16 (as claimed): in every store state a record with status active has
\* end_time and no paused_time_remaining, and a record with status paused has
\* paused_time_remaining and no end_time.
C16_FieldsMatchStatus ==
  \A m \in Machines :
    LET rec == store[m]
    IN  /\ rec.status = "active"
           => ("end_time" \in DOMAIN rec /\ "paused_time_remaining" \notin DOMAIN rec)
        /\ rec.status = "paused"
           => ("paused_time_remaining" \in DOMAIN rec /\ "end_time" \notin DOMAIN rec)

\* Some active record of the snapshot is in the critical window.
InCriticalWindow(data, t) ==
  \E m \in DOMAIN data :
    /\ data[m].status = "active"
    /\ data[m].end_time - t > 30000
    /\ data[m].end_time - t <= 120000

\* C17: a reconciliation pass over a snapshot in which some active record has
\* 30000 < end_time - now <= 120000 issues no compare-and-delete at all, also
\* not for other records that are past the expiration threshold.
C17_CriticalWindowNoSweep ==
  (last.kind = "reconcile" /\ InCriticalWindow(last.data, now))
  => /\ ~last.swept
     /\ last.issued = {}

\* C17 witness: a pass saw one record whose end_time has passed and another
\* in the critical window, and issued nothing.
C17_Witness ==
  /\ last.kind = "reconcile"
  /\ \E cand \in last.candidates : cand.endTime <= now
  /\ InCriticalWindow(last.data, now)
  /\ last.issued = {}

\* C18 (as claimed): within one client no two store operations (claim, stop,
\* pause, resume, sweeper compare-and-delete) on the same machine record are
\* in flight together.
C18_OneOpPerMachineInFlight ==
  \A o1 \in ops, o2 \in ops : (o1.c = o2.c /\ o1.m = o2.m) => o1 = o2

\* C20 (as claimed): a pause or resume whose read of the record is followed,
\* before its own write, by a committed change of that record does not write:
\* the record stays as the newer change left it.
C20_StaleControlAborts ==
  (last.kind = "control" /\ last.action \in {"pause", "resume"} /\ last.prev # last.seen)
  => store[last.m] = last.prev

\* The store transactions for claims among the operations os, without the
\* bookkeeping of who awaits them.
ClaimTxns(os) ==
  {[c |-> o.c, m |-> o.m, minutes |-> o.minutes] : o \in {x \in os : x.kind = "setTimer"}}

\* C19 (as claimed): while a claim for a machine is in flight in a client,
\* further claim calls for it in that client start no store transaction, and
\* they complete with the in-flight claim: when it fails, the callers awaiting
\* it fail with it and start nothing.
C19_DedupedClaimsShareOutcome ==
  /\ (/\ last.kind = "setTimer_call"
      /\ \E o \in last.opsBefore : o.kind = "setTimer" /\ o.c = last.c /\ o.m = last.m)
     => /\ last.outcome \in {"joined", "ignored"}
        /\ ClaimTxns(ops) = ClaimTxns(last.opsBefore)
  /\ last.kind = "setTimer_failed"
     => /\ last.restarted = {}
        /\ ClaimTxns(ops) \subseteq ClaimTxns(last.opsBefore)

\* A value event reached the onValue listener of a followed client in the
\* step just taken.
Arrival ==
  \/ last.kind = "debounced"
  \/ (last.kind = "reconcile" /\ last.c \in Clients /\ last.via.by = "listener")

\* C21: a change notification that arrives when no reconciliation pass has
\* run during the preceding 2000 ms (the first one after subscribing
\* included) is reconciled inside the notification callback: the pass has
\* run on its snapshot when the callback returns, and no timer is left pending.
C21_QuietNotificationImmediate ==
  (Arrival /\ last.quiet >= 2000)
    => /\ last.kind = "reconcile"
       /\ lastProcessTime[last.c] = now
       /\ debounce[last.c].pending = {}

\* A notification arrives 2000 ms or more after the pass before it, on a
\* listener that has run a pass before.
C21_Witness ==
  /\ Arrival
  /\ last.quiet >= 2000
  /\ last.quiet < now
  /\ last.kind = "reconcile"

\* A pass started by the debounce timeout ran in the step just taken.
DelayedPass ==
  last.kind = "reconcile" /\ last.c \in Clients /\ last.via.by = "debounce"

\* What C22 says of notifications that arrive less than 2000 ms after the
\* last pass, of the delayed pass and of the pending timers.
DebounceRules ==
  /\ (Arrival /\ last.quiet < 2000)
       => /\ last.kind = "debounced"
          /\ lastProcessTime[last.c] = now - last.quiet
          /\ \E t \in debounce[last.c].pending : t.data = last.data /\ t.set = now
  /\ DelayedPass
       => /\ now = last.via.timer.set + 500
          /\ last.via.timer = last.via.latest
          /\ last.data = last.via.timer.data
          /\ debounce[last.c].pending = {}
  /\ \A c \in Clients : Cardinality(debounce[c].pending) <= 1

\* C22: notifications that arrive less than 2000 ms after the last pass are
\* not reconciled on arrival; a burst of them leads to a single delayed pass,
\* 500 ms after the last notification of the burst and on that snapshot (so
\* no pass run on arrival takes the place of a pending delayed pass); at most
\* one debounce timer is pending at any time.
C22_BurstLeadsToDelayedPass ==
  /\ DebounceRules
  /\ (Arrival /\ last.kind = "reconcile") => last.via.cancelled = {}

\* C22 as the code has it: the rules above, and a pending delayed pass is
\* given up on arrival only for a notification that comes 2000 ms or more
\* after the last pass, which is reconciled at once on its newer snapshot.
C22_DelayedPassOrNewerImmediate ==
  /\ DebounceRules
  /\ (Arrival /\ last.kind = "reconcile" /\ last.via.cancelled # {})
       => /\ last.quiet >= 2000
          /\ lastProcessTime[last.c] = now
          /\ \A t \in last.via.cancelled : t.set <= now /\ now <= t.due

\* The delayed pass of a burst of two or more notifications has run.
C22_Witness ==
  /\ DelayedPass
  /\ last.via.timer.burst >= 2

\* C23: once the unsubscribe handle returned by listenToMachines has been
\* called, the store listener is detached, no debounce timer is pending, and
\* no notification reaches the listener and no reconciliation pass runs for
\* that subscription.
C23_NoPassAfterUnsubscribe ==
  \A c \in Clients :
    ~firebaseListener[c]
      => /\ ~subscribed[c]
         /\ debounce[c].pending = {}
         /\ ~(last.kind \in {"reconcile", "debounced"} /\ last.c = c)

\* C24: right after LaundryApp.cleanup the client's timer registry is empty,
\* so that no SimpleTimer interval is left to tick, and its store listener is
\* detached.
C24_TeardownLeavesNothing ==
  last.kind = "cleanup"
    => /\ \A m \in Machines : ~timers[last.c][m].exists
       /\ ~subscribed[last.c]

\* C25: no machine has more than one handle whose interval is running; and
\* when TimerManager.startTimer returns, the interval of every handle that
\* was registered before is cleared and the registry holds the new handle.
C25_OneLiveHandlePerMachine ==
  /\ \A c \in Clients, m \in Machines : Cardinality(LiveIntervals(timers[c][m])) <= 1
  /\ last.kind = "startTimer"
       => LET h == timers[last.c][last.m]
          IN  /\ h.exists
              /\ h.endTime = last.endTime
              /\ ~h.isPaused
              /\ h.earlier = {}

\* startTimer was called for a machine whose registered handle was ticking,
\* and the new handle ticks.
C25_Witness ==
  /\ last.kind = "startTimer"
  /\ LiveIntervals(last.prev) # {}
  /\ timers[last.c][last.m].interval

\* The user asked client c for a claim of machine m in the step just taken.
UserClaim(c, m) ==
  last.kind = "setTimer_call" /\ last.app /\ last.c = c /\ last.m = m

\* A claim transaction of client c for machine m ended in the step just taken.
ClaimEnded(c, m) ==
  last.kind \in {"setTimer", "setTimer_failed"} /\ last.c = c /\ last.m = m

\* C26: on a store that answers, a user's claim for a valid machine and
\* duration leads to a claim transaction of that client for the machine that
\* commits (or is rejected by the store, after which the same holds of the
\* claim issued again).
C26_ValidClaimEventuallyCommits ==
  \A c \in AppClients, m \in AppMachines : UserClaim(c, m) ~> ClaimEnded(c, m)

ScenarioA == store["washer_1"] = FreshRecord("washer_1", 29, 0)

\* The card of washer_1 on the followed page was written in the step just
\* taken, by a reconciliation pass or by the tick of its SimpleTimer.
CardWritten ==
  \/ last.kind = "reconcile" /\ last.c = "c1"
  \/ last.kind = "tick" /\ last.c = "c1" /\ last.m = "washer_1"

\* C28: after claim(washer_1, 29) at t = 0 the record is active with
\* end_time = 1740000; the display derived for it at t = 1739999 is active
\* with 1 minute left, and the display derived at t = 1740001 is available.
C28_ScenarioA_AsClaimed ==
  ScenarioA
    => /\ store["washer_1"].status = "active"
       /\ store["washer_1"].end_time = 1740000
       /\ (now = 1739999 /\ CardWritten) => display["c1"]["washer_1"] = Disp("active", 1)
       /\ (now = 1740001 /\ CardWritten) => display["c1"]["washer_1"].status = "available"

\* C28 as the code has it: at t = 1739999 the tick of the SimpleTimer shows
\* active with 1 minute left, while processMachineData, and with it a
\* reconciliation pass at that time, gives available with 0 minutes (the
\* record is within 30000 ms of its end); at t = 1740001 both give available.
C28_ScenarioA_TickAndPass ==
  ScenarioA
    => /\ store["washer_1"].status = "active"
       /\ store["washer_1"].end_time = 1740000
       /\ now = 1739999
            => /\ ProcessMachine("washer_1", store["washer_1"], now).status = "available"
               /\ ProcessMachine("washer_1", store["washer_1"], now).time_remaining_minutes = 0
               /\ (last.kind = "tick" /\ CardWritten)
                    => display["c1"]["washer_1"] = Disp("active", 1)
               /\ (last.kind = "reconcile" /\ CardWritten)
                    => display["c1"]["washer_1"] = Disp("available", 0)
       /\ now = 1740001
            => /\ ProcessMachine("washer_1", store["washer_1"], now).status = "available"
               /\ CardWritten => display["c1"]["washer_1"] = Disp("available", 0)

\* A reconciliation pass ran at t = 1739999 on the record claimed at t = 0.
C28_Witness ==
  /\ ScenarioA
  /\ now = 1739999
  /\ last.kind = "reconcile"
  /\ last.data["washer_1"] = store["washer_1"]
  /\ display["c1"]["washer_1"].status = "available"

\* The tick of washer_1's SimpleTimer ran at t = 1739999.
ScenarioA_TickSeen ==
  ScenarioA /\ now = 1739999 /\ last.kind = "tick" /\ last.m = "washer_1"

\* Scenario B: the write of a pause of dryer_2 landed, called 600000 ms after
\* claim(dryer_2, 60) at t = 0, on the record that claim left.
ScenarioB_Paused ==
  /\ last.kind = "control" /\ last.action = "pause" /\ last.m = "dryer_2"
  /\ last.seen = FreshRecord("dryer_2", 60, 0)
  /\ store["dryer_2"].paused_at = 600000

\* Scenario B: the write of a resume of dryer_2 landed, called 10000 ms after
\* that pause, on the record the pause left.
ScenarioB_Resumed ==
  /\ last.kind = "control" /\ last.action = "resume" /\ last.m = "dryer_2"
  /\ last.seen = PausedData(FreshRecord("dryer_2", 60, 0), 600000)
  /\ store["dryer_2"].resumed_at = 610000

\* C29: after claim(dryer_2, 60) and a pause when 600000 ms have elapsed the
\* stored record is paused with paused_time_remaining = 54; a resume 10000 ms
\* later stores end_time = now + 54 * 60000, now being the time of the resume.
C29_ScenarioB_AsClaimed ==
  /\ ScenarioB_Paused
       => /\ store["dryer_2"].status = "paused"
          /\ store["dryer_2"].paused_time_remaining = 54
  /\ ScenarioB_Resumed
       => /\ store["dryer_2"].status = "active"
          /\ store["dryer_2"].end_time = 610000 + 54 * 60000

\* C29 as the code has it: 3000000 ms are left when the pause is made, so
\* paused_time_remaining = 50, and the resume stores end_time = now + 50 * 60000.
C29_ScenarioB_FiftyMinutes ==
  /\ ScenarioB_Paused
       => /\ store["dryer_2"].status = "paused"
          /\ store["dryer_2"].paused_time_remaining = 50
  /\ ScenarioB_Resumed
       => /\ store["dryer_2"].status = "active"
          /\ store["dryer_2"].end_time = 610000 + 50 * 60000
          /\ PauseFields \cap DOMAIN store["dryer_2"] = {}

\* The resume of scenario B has been stored.
C29_Witness ==
  /\ ScenarioB_Resumed
  /\ store["dryer_2"].status = "active"

\* C30: a claim call made through LaundryApp.setTimer for a machine for
\* which the client has no claim in flight (every earlier attempt has ended,
\* with success or with an error) is not ignored.
C30_ReattemptNotIgnored ==
  (/\ last.kind = "setTimer_call"
   /\ last.app
   /\ ~\E o \in last.opsBefore : o.kind = "setTimer" /\ o.c = last.c /\ o.m = last.m)
    => last.outcome # "ignored"

\* C31: when the transaction of a claim made through LaundryApp.setTimer fails
\* on an attempt before the last (attempt < 2), the claim is attempted again:
\* the client has a transaction of a later attempt in flight for the machine.
C31_FailedAttemptRetried ==
  (/\ last.kind = "setTimer_failed"
   /\ \E o \in last.opsBefore : /\ o.kind = "setTimer" /\ o.app
                                /\ o.c = last.c /\ o.m = last.m
                                /\ o.attempt < MAX_RETRIES)
    => \E r \in ops : /\ r.kind = "setTimer" /\ r.c = last.c /\ r.m = last.m
                      /\ r.attempt > 1

\* C32: for one sweep candidate the compare-and-delete is invoked at most 2
\* times: a call in flight has been rejected at most once; a transaction
\* that answers ends the call with its result, on the first or the second
\* invocation; a first rejection is followed by one more invocation; a second
\* rejection ends the call, which resolves with a failure value.
C32_AtMostTwoInvocations ==
  /\ \A o \in ops : o.kind = "expire" => o.attempts < CIRCUIT_MAX_RETRIES
  /\ last.kind = "expire"
       => /\ last.invocations <= CIRCUIT_MAX_RETRIES
          /\ last.result.success = last.deleted
          /\ last.op \notin ops
  /\ last.kind = "expire_retry"
       => /\ last.invocations = 1
          /\ [last.op EXCEPT !.attempts = 1] \in ops
  /\ last.kind = "expire_failed"
       => /\ last.invocations = CIRCUIT_MAX_RETRIES
          /\ last.result = [success |-> FALSE, reason |-> "operation_failed"]
          /\ last.op \notin ops
          /\ [last.op EXCEPT !.attempts = last.invocations] \notin ops

\* The sweeper's transaction for a candidate was rejected twice and the call
\* gave up.
C32_Witness ==
  /\ last.kind = "expire_failed"
  /\ last.op.attempts = 1
  /\ store[last.m] # Absent

\* The calls of the sweep of o that batchCleanupExpiredTimers has made and
\* that have not settled.
InFlightOf(o) ==
  {p \in ops : p.kind = "expire" /\ p.c = o.c /\ p.sweep = o.sweep /\ BatchTurn(p)}

\* C33: when the compare-and-delete of one candidate of a sweep has failed
\* for good, the call resolves with a failure value and the calls for the
\* other candidates of the sweep are all still to be made or in flight; at
\* most 2 calls of a sweep are in flight at a time, and as long as calls of a
\* sweep are outstanding one of them is in flight.
C33_FailureDoesNotStopSweep ==
  /\ last.kind = "expire_failed"
       => /\ last.result.success = FALSE
          /\ ops = last.opsBefore \ {last.op}
  /\ \A o \in ops : o.kind = "expire"
       => /\ Cardinality(InFlightOf(o)) <= BATCH_SIZE
          /\ InFlightOf(o) # {}

\* The call for a candidate of the second batch is made although the record
\* of a candidate of the first batch is still there and still due: its
\* compare-and-delete failed.
C33_Witness ==
  /\ last.kind = "expire"
  /\ last.op.batch = 1
  /\ \E x \in last.op.sweep :
        /\ BatchOf(x, last.op.sweep) = 0
        /\ ExpireDecision(store[x.machineId], x.endTime, now)
  /\ Cardinality(last.op.sweep) = 3

\* C34: a reconciliation pass over a snapshot with no record in the critical
\* window (30000 < end_time - now <= 120000) issues a compare-and-delete for
\* every active record of the snapshot with end_time - now <= 30000.
C34_DueRecordsSwept ==
  (last.kind = "reconcile" /\ ~InCriticalWindow(last.data, now))
    => \A m \in DOMAIN last.data :
         (/\ last.data[m].status = "active"
          /\ last.data[m].end_time - now <= EXPIRATION_THRESHOLD)
           => \E o \in last.issued : /\ o.kind = "expire" /\ o.m = m
                                     /\ o.expectedEndTime = last.data[m].end_time

\* C35: a step that changes or removes a paused handle of a client's registry
\* is a resume or a stop of that machine's timer (also the stop with which
\* startTimer begins, and the teardown of the page): no tick and no
\* reconciliation pass does it.
C35_PausedLeftOnlyByResumeOrStop ==
  [][\A c \in Clients, m \in Machines :
       (/\ timers[c][m].exists
        /\ timers[c][m].isPaused
        /\ timers'[c][m] # timers[c][m])
         => \/ /\ last'.kind \in {"timer_call", "app_control", "control_call"}
               /\ last'.c = c
               /\ last'.m = m
               /\ last'.action \in {"resume", "stop"}
            \/ last'.kind = "startTimer" /\ last'.c = c /\ last'.m = m
            \/ last'.kind \in {"reload", "cleanup"}]_vars

\* C36: a tick of a running handle that finds endTime - now <= 0 shows the
\* machine as available and removes the handle (its interval with it) in that
\* step, without a store operation and whatever the store holds; any other
\* tick of a running handle shows ceil((endTime - now) / 60000) minutes,
\* computed from endTime and the clock alone, and keeps the handle.
C36_TickExpiresLocally ==
  [][last'.kind = "tick"
       => LET c == last'.c
              m == last'.m
              h == timers[c][m]
          IN  /\ store' = store
              /\ ops' = ops
              /\ ~h.isPaused
                   => IF h.endTime - now <= 0
                      THEN /\ display'[c][m] = Disp("available", 0)
                           /\ timers'[c][m] = NoTimer
                           /\ LiveIntervals(timers'[c][m]) = {}
                      ELSE /\ display'[c][m]
                                = Disp("active", CeilDiv(h.endTime - now, MS_PER_MINUTE))
                           /\ timers'[c][m] = h]_vars

\* A tick has expired a handle while the record of its machine is still in
\* the store.
C36_Witness ==
  /\ last.kind = "tick"
  /\ ~timers[last.c][last.m].exists
  /\ display[last.c][last.m] = Disp("available", 0)
  /\ store[last.m] # Absent
  /\ store[last.m].end_time <= now

\* C37: the pause of a running handle captures endTime - now; the resume of
\* a paused handle at time t leaves a running handle with endTime - t equal
\* to the captured value, whatever the time between the two (a captured
\* value that is not positive makes the resume's tick expire the handle);
\* a tick of a paused handle changes neither the handle nor the display.
C37_LocalPauseResumeExact ==
  [][/\ (last'.kind = "timer_call" /\ last'.action = "pause"
          /\ last'.prev.exists /\ ~last'.prev.isPaused)
        => /\ timers'[last'.c][last'.m].isPaused
           /\ timers'[last'.c][last'.m].pausedTimeRemainingMs = last'.prev.endTime - now
     /\ (last'.kind = "timer_call" /\ last'.action = "resume"
          /\ last'.prev.exists /\ last'.prev.isPaused)
        => IF last'.prev.pausedTimeRemainingMs > 0
           THEN /\ timers'[last'.c][last'.m].exists
                /\ ~timers'[last'.c][last'.m].isPaused
                /\ timers'[last'.c][last'.m].endTime - now
                     = last'.prev.pausedTimeRemainingMs
                /\ display'[last'.c][last'.m]
                     = Disp("active", CeilDiv(last'.prev.pausedTimeRemainingMs, MS_PER_MINUTE))
           ELSE timers'[last'.c][last'.m] = NoTimer
     /\ (last'.kind = "tick" /\ timers[last'.c][last'.m].isPaused)
        => /\ timers'[last'.c][last'.m] = timers[last'.c][last'.m]
           /\ display'[last'.c][last'.m] = display[last'.c][last'.m]]_vars

\* A handle was resumed later than it was paused: its endTime has moved, and
\* what is left is what the pause captured.
C37_Witness ==
  /\ last.kind = "timer_call"
  /\ last.action = "resume"
  /\ last.prev.exists
  /\ last.prev.isPaused
  /\ last.prev.pausedTimeRemainingMs > 0
  /\ timers[last.c][last.m].exists
  /\ timers[last.c][last.m].endTime > last.prev.endTime
  /\ timers[last.c][last.m].endTime - now = last.prev.pausedTimeRemainingMs

\* C38: after a client's reconciliation pass over a snapshot in which a
\* machine has a record with status paused, the client's card of the machine
\* shows paused with the record's paused_time_remaining minutes.
C38_PausedRecordShownPaused ==
  last.kind = "reconcile" /\ last.c \in Clients
    => \A m \in DOMAIN last.data :
         last.data[m].status = "paused"
           => display[last.c][m] = Disp("paused", last.data[m].paused_time_remaining)

\* A reconciliation pass of a followed client's subscription ran in the step
\* just taken; last.quiet is the time since the pass before it.
PassRan == last.kind = "reconcile" /\ last.c \in Clients

C40_LatestSnapshotCovered ==
  /\ Arrival
       => \/ /\ last.kind = "reconcile"
             /\ debounce[last.c].pending = {}
             /\ lastProcessTime[last.c] = now
          \/ /\ last.kind = "debounced"
             /\ debounce[last.c].timeout.has
             /\ debounce[last.c].timeout.data = last.data
             /\ debounce[last.c].pending = {debounce[last.c].timeout}
  /\ \A c \in Clients :
       debounce[c].pending # {}
         => /\ debounce[c].pending = {debounce[c].timeout}
            /\ now <= debounce[c].timeout.due
  /\ DelayedPass
       => /\ last.via.timer = last.via.latest
          /\ last.data = last.via.latest.data
          /\ debounce[last.c].pending = {}
          /\ lastProcessTime[last.c] = now

\* The debounce timer has run its pass over the snapshot of the last of
\* several notifications, and that snapshot is what the store now holds.
C40_Witness ==
  /\ DelayedPass
  /\ last.via.timer.burst >= 2
  /\ last.data = store
  /\ subscribed[last.c]
  /\ firebaseListener[last.c]

====
